---- MODULE Spec2Model ----
(***************************************************************************)
(* Model of otgorm: opentracing instrumentation of gorm callbacks.         *)
(*                                                                         *)
(* Go strings are modelled as sequences of one-character strings, so that  *)
(* formatting (fmt.Sprintf) and replacement (strings.Replacer) are         *)
(* computed character by character.                                        *)
(***************************************************************************)
EXTENDS Integers, Sequences, FiniteSets, TLC

(***************************************************************************)
(* Bounds of the model.                                                    *)
(***************************************************************************)
\* longest argument list / highest placeholder number tried by the renderer
MaxArgs == 10
\* number of hook invocations the host performs on one operation state
MaxCalls == 3

(***************************************************************************)
(* Reserved gorm setting keys.                                             *)
(***************************************************************************)
parentSpanGormKey == "opentracingParentSpan"
spanGormKey == "opentracingSpan"

(***************************************************************************)
(* Character-level helpers standing for the Go standard library.           *)
(***************************************************************************)
DigitChars == <<"0", "1", "2", "3", "4", "5", "6", "7", "8", "9">>
Digits == {DigitChars[i] : i \in 1..Len(DigitChars)}

LowerLetters == <<"a","b","c","d","e","f","g","h","i","j","k","l","m",
                  "n","o","p","q","r","s","t","u","v","w","x","y","z">>
UpperLetters == <<"A","B","C","D","E","F","G","H","I","J","K","L","M",
                  "N","O","P","Q","R","S","T","U","V","W","X","Y","Z">>

\* fmt's %d of a non-negative integer
RECURSIVE NatDigits(_)
NatDigits(n) ==
    IF n < Len(DigitChars)
    THEN <<DigitChars[n + 1]>>
    ELSE NatDigits(n \div Len(DigitChars)) \o <<DigitChars[(n % Len(DigitChars)) + 1]>>

\* fmt's %d / %v of an integer
Itoa(n) == IF n < 0 THEN <<"-">> \o NatDigits(0 - n) ELSE NatDigits(n)

\* fmt's %v of a bool
FormatBool(b) == IF b THEN <<"t","r","u","e">> ELSE <<"f","a","l","s","e">>

\* fmt's %v of a float64 (shortest form), the value held in tenths
FormatFloat(tenths) ==
    IF tenths % Len(DigitChars) = 0
    THEN NatDigits(tenths \div Len(DigitChars))
    ELSE NatDigits(tenths \div Len(DigitChars)) \o <<".">>
             \o <<DigitChars[(tenths % Len(DigitChars)) + 1]>>

\* time.Time.String(): the clock part of the canonical form, the value held
\* as seconds after midnight of a fixed day (date and zone left out)
TwoDigits(n) == IF n < Len(DigitChars) THEN <<"0">> \o NatDigits(n) ELSE NatDigits(n)
TimeString(t) ==
    TwoDigits(t.sec \div (60 * 60)) \o <<":">> \o TwoDigits((t.sec \div 60) % 60)
        \o <<":">> \o TwoDigits(t.sec % 60)

\* fmt.Sprintf(`'%s'`, x) and fmt.Sprintf(`'%v'`, x) around the text of x
Quote(s) == <<"'">> \o s \o <<"'">>

NullText == <<"N","U","L","L">>

(***************************************************************************)
(* Argument values (scope.SQLVars elements): a Go interface{} holding one  *)
(* concrete value, modelled as a record tagged with its dynamic type.      *)
(***************************************************************************)
NilValue == [type |-> "nil"]
StringValue(s) == [type |-> "string", s |-> s]
IntValue(n) == [type |-> "int", n |-> n]
BoolValue(b) == [type |-> "bool", b |-> b]
FloatValue(tenths) == [type |-> "float64", tenths |-> tenths]
TimeValue(sec) == [type |-> "time.Time", sec |-> sec]
NullString(s, valid) == [type |-> "sql.NullString", String |-> s, Valid |-> valid]
NullInt64(n, valid) == [type |-> "sql.NullInt64", Int64 |-> n, Valid |-> valid]
NullInt32(n, valid) == [type |-> "sql.NullInt32", Int32 |-> n, Valid |-> valid]
NullBool(b, valid) == [type |-> "sql.NullBool", Bool |-> b, Valid |-> valid]
NullFloat64(tenths, valid) ==
    [type |-> "sql.NullFloat64", Float64 |-> tenths, Valid |-> valid]
SqlNullTime(sec, valid) ==
    [type |-> "sql.NullTime", Time |-> TimeValue(sec), Valid |-> valid]
PqNullTime(sec, valid) ==
    [type |-> "pq.NullTime", Time |-> TimeValue(sec), Valid |-> valid]

NullWrapperTypes ==
    {"sql.NullString", "sql.NullInt64", "sql.NullInt32", "sql.NullBool",
     "sql.NullFloat64", "sql.NullTime", "pq.NullTime"}

\* reflect.ValueOf(val).Kind(): the kind of the concrete value held by the
\* interface; the zero Value of a nil interface has kind Invalid.  ValueOf
\* never yields kind Interface.
KindOf(val) ==
    CASE val.type = "nil" -> "Invalid"
      [] val.type = "string" -> "String"
      [] val.type = "int" -> "Int"
      [] val.type = "bool" -> "Bool"
      [] val.type = "float64" -> "Float64"
      [] OTHER -> "Struct"

\* fmt.Sprintf(`%v`, val): a Stringer (time.Time) prints its String(), a
\* plain struct prints its fields in braces, a nil interface prints <nil>.
RECURSIVE FormatV(_)
FormatV(val) ==
    CASE val.type = "nil" -> <<"<","n","i","l",">">>
      [] val.type = "string" -> val.s
      [] val.type = "int" -> Itoa(val.n)
      [] val.type = "bool" -> FormatBool(val.b)
      [] val.type = "float64" -> FormatFloat(val.tenths)
      [] val.type = "time.Time" -> TimeString(val)
      [] val.type = "sql.NullString" ->
            <<"{">> \o val.String \o <<" ">> \o FormatBool(val.Valid) \o <<"}">>
      [] val.type = "sql.NullInt64" ->
            <<"{">> \o Itoa(val.Int64) \o <<" ">> \o FormatBool(val.Valid) \o <<"}">>
      [] val.type = "sql.NullInt32" ->
            <<"{">> \o Itoa(val.Int32) \o <<" ">> \o FormatBool(val.Valid) \o <<"}">>
      [] val.type = "sql.NullBool" ->
            <<"{">> \o FormatBool(val.Bool) \o <<" ">> \o FormatBool(val.Valid) \o <<"}">>
      [] val.type = "sql.NullFloat64" ->
            <<"{">> \o FormatFloat(val.Float64) \o <<" ">> \o FormatBool(val.Valid) \o <<"}">>
      [] val.type \in {"sql.NullTime", "pq.NullTime"} ->
            <<"{">> \o FormatV(val.Time) \o <<" ">> \o FormatBool(val.Valid) \o <<"}">>

\* the type switch of setStatement's reflect.Interface case
InterfaceCaseValue(val) ==
    CASE val.type = "time.Time" -> Quote(TimeString(val))
      [] val.type = "sql.NullTime" /\ val.Valid -> Quote(TimeString(val.Time))
      [] val.type = "sql.NullString" /\ val.Valid -> Quote(val.String)
      [] val.type = "sql.NullInt64" /\ val.Valid -> Itoa(val.Int64)
      [] val.type = "sql.NullInt32" /\ val.Valid -> Itoa(val.Int32)
      [] val.type = "sql.NullBool" /\ val.Valid -> FormatBool(val.Bool)
      [] val.type = "sql.NullFloat64" /\ val.Valid -> FormatFloat(val.Float64)
      [] val.type = "pq.NullTime" /\ val.Valid -> Quote(FormatV(val.Time))
      [] OTHER -> NullText

\* text with every single quote doubled, as SQL escaping would write it
RECURSIVE EscapeQuotes(_)
EscapeQuotes(s) ==
    IF s = <<>> THEN <<>>
    ELSE (IF Head(s) = "'" THEN <<"'", "'">> ELSE <<Head(s)>>) \o EscapeQuotes(Tail(s))

\* variant of sqlValue that escapes the quotes of a string argument
sqlValueEscaping(val) ==
    CASE KindOf(val) = "String" -> Quote(EscapeQuotes(val.s))
      [] KindOf(val) = "Interface" -> InterfaceCaseValue(val)
      [] OTHER -> FormatV(val)

\* the literal setStatement computes for one argument: the switch on the
\* reflected kind
sqlValue(val) ==
    CASE KindOf(val) = "String" -> Quote(val.s)
      [] KindOf(val) = "Interface" -> InterfaceCaseValue(val)
      [] OTHER -> FormatV(val)

\* variant of replacer whose loop stops one argument short (i < len)
replacerStopsShort(sqlVars) ==
    [i \in 1..(Len(sqlVars) - 1) |->
        [old |-> <<"$">> \o NatDigits(i), new |-> sqlValue(sqlVars[i])]]

\* the oldnew list handed to strings.NewReplacer: $i, sqlValue(SQLVars[i-1])
\* for i = 1..len(SQLVars)
replacer(sqlVars) ==
    [i \in 1..Len(sqlVars) |->
        [old |-> <<"$">> \o NatDigits(i), new |-> sqlValue(sqlVars[i])]]

(***************************************************************************)
(* strings.Replacer.Replace: one left-to-right pass over the input; at     *)
(* each position the pair that comes first in argument order among those   *)
(* whose old string is a prefix of the rest is applied and the scan        *)
(* resumes after the matched text; replaced text is never scanned again.   *)
(***************************************************************************)
HasPrefixAt(s, i, old) ==
    /\ i + Len(old) - 1 <= Len(s)
    /\ \A k \in 1..Len(old) : s[i + k - 1] = old[k]

Matching(s, i, pairs) == {k \in 1..Len(pairs) : HasPrefixAt(s, i, pairs[k].old)}

FirstOf(S) == CHOOSE k \in S : \A j \in S : k <= j

RECURSIVE ReplaceFrom(_, _, _)
ReplaceFrom(s, i, pairs) ==
    IF i > Len(s)
    THEN <<>>
    ELSE IF Matching(s, i, pairs) = {}
         THEN <<s[i]>> \o ReplaceFrom(s, i + 1, pairs)
         ELSE LET p == pairs[FirstOf(Matching(s, i, pairs))]
              IN  p.new \o ReplaceFrom(s, i + Len(p.old), pairs)

\* variant of Replace that applies the pairs one after the other, each over
\* the whole text produced so far (a loop of strings.ReplaceAll)
RECURSIVE ReplaceOneByOne(_, _)
ReplaceOneByOne(s, pairs) ==
    IF pairs = <<>> THEN s
    ELSE ReplaceOneByOne(ReplaceFrom(s, 1, <<Head(pairs)>>), Tail(pairs))

Replace(s, pairs) == ReplaceFrom(s, 1, pairs)

\* setStatement(scope): the statement text rebuilt from scope.SQL and
\* scope.SQLVars
setStatement(sql, sqlVars) == Replace(sql, replacer(sqlVars))

(***************************************************************************)
(* State.                                                                  *)
(***************************************************************************)
VARIABLES
    kind,          \* which callback chain the host runs for this operation
    SQL,           \* scope.SQL, the template sent to the driver
    SQLVars,       \* scope.SQLVars, the bound arguments
    dbError,       \* scope.DB().Error ("nil" when the operation succeeded)
    RowsAffected,  \* scope.DB().RowsAffected
    dbValues,      \* settings of the handle given to SetSpanToGorm
    scopeValues,   \* settings of the handle the operation runs on (scope.Get/Set)
    spans,         \* spans started on the tracers, in order of creation
    log,           \* tracer interactions, in order
    calls,         \* hook invocations made by the host on this operation
    result,        \* value returned by a direct call of setStatement
    ctx,           \* the context given to the latest SetSpanToGorm call
    parked         \* the other operations in flight, each with its own state

vars == <<kind, SQL, SQLVars, dbError, RowsAffected, dbValues, scopeValues,
          spans, log, calls, result, ctx, parked>>

scopeFields == <<kind, SQL, SQLVars, dbError, RowsAffected>>

Kinds == {"create", "query", "update", "delete", "row_query"}

NoError == "nil"
Errors == {NoError, "boom"}
HasError == dbError # NoError

TableName == "users"
DialectName == "postgres"
InstanceID == "0xc000010000"

NotRun == <<"<", "n", "o", "t", " ", "r", "u", "n", ">">>

\* parent spans found in request contexts, each bound to its tracer
NoSpan == [id |-> "none", tracer |-> "none"]
ParentSpans == {[id |-> "p1", tracer |-> "trA"], [id |-> "p2", tracer |-> "trB"]}

\* context.Context values: nil, or a context with or without an active span
NilContext == [isNil |-> TRUE, span |-> NoSpan]
Contexts ==
    {NilContext, [isNil |-> FALSE, span |-> NoSpan]}
        \cup {[isNil |-> FALSE, span |-> p] : p \in ParentSpans}

\* opentracing.SpanFromContext(ctx)
SpanFromContext(c) == c.span

\* settings present on the handle before tracing touches it
BaseSettings == [k \in {"gorm:table_options"} |-> "ENGINE=x"]

\* db.Set / scope.Set: the settings with one key stored
Store(values, key, value) ==
    [k \in DOMAIN values \cup {key} |-> IF k = key THEN value ELSE values[k]]

(***************************************************************************)
(* Templates and argument lists the host produces.                         *)
(***************************************************************************)
ExampleSQL ==
    <<"S","E","L","E","C","T"," ","*"," ","F","R","O","M"," ","t"," ",
      "W","H","E","R","E"," ","i","d"," ","=", " ","$","1"," ",
      "A","N","D"," ","n","a","m","e"," ","=", " ","$","2">>
ExampleVars == <<IntValue(5), StringValue(<<"a","n","n">>)>>
ExampleStatement ==
    <<"S","E","L","E","C","T"," ","*"," ","F","R","O","M"," ","t"," ",
      "W","H","E","R","E"," ","i","d"," ","=", " ","5"," ",
      "A","N","D"," ","n","a","m","e"," ","=", " ","'","a","n","n","'">>

RowQuerySQL ==
    <<"s","e","l","e","c","t"," ","i","d"," ","f","r","o","m"," ","t">>

\* $1 sep $2 sep ... $m, as the dialect's BindVar numbers the placeholders
RECURSIVE Placeholders(_, _)
Placeholders(m, sep) ==
    IF m = 0 THEN <<>>
    ELSE IF m = 1 THEN <<"$">> \o NatDigits(m)
    ELSE Placeholders(m - 1, sep) \o sep \o <<"$">> \o NatDigits(m)

\* text in front of the placeholders ($ alone is a dollar that belongs to
\* no placeholder), text between them, and text after them
Prefixes == {<<>>, <<"a", "=">>, <<"$">>}
Separators == {<<>>, <<",">>}
Suffixes == {<<>>, <<";">>}

Templates(m) ==
    {pre \o Placeholders(m, sep) \o suf :
        pre \in Prefixes, sep \in Separators, suf \in Suffixes}

OReilly == <<"O","'","R","e","i","l","l","y">>
Texts == {<<"a","n","n">>, <<"$","2">>, OReilly}

ArgValues ==
    {NilValue, IntValue(5), BoolValue(TRUE), FloatValue(15), TimeValue(3661)}
        \cup {StringValue(t) : t \in Texts}
        \cup {NullString(<<"a","n","n">>, v) : v \in BOOLEAN}
        \cup {NullString(<<>>, FALSE)}
        \cup {NullInt64(5, v) : v \in BOOLEAN}
        \cup {NullInt32(5, TRUE), NullInt32(0, FALSE)}
        \cup {NullBool(TRUE, TRUE), NullBool(FALSE, FALSE)}
        \cup {NullFloat64(15, TRUE), NullFloat64(0, FALSE)}
        \cup {SqlNullTime(3661, v) : v \in BOOLEAN}
        \cup {PqNullTime(3661, v) : v \in BOOLEAN}

\* values used to fill long argument lists
FillValues == {IntValue(5), StringValue(<<"a","n","n">>), NullString(<<>>, FALSE)}

\* every list of at most two arguments, and longer lists (up to MaxArgs)
\* alternating two fill values
ShortVars == {<<>>} \cup {<<a>> : a \in ArgValues}
                    \cup {<<a, b>> : a \in ArgValues, b \in ArgValues}
LongVars ==
    {[i \in 1..n |-> IF i % 2 = 1 THEN a ELSE b] :
        n \in 3..MaxArgs, a \in FillValues, b \in FillValues}

\* placeholder counts tried for n arguments: n, one fewer and one more
PlaceholderCounts(n) == {m \in {n - 1, n, n + 1} : m >= 0}

RenderInputs ==
    UNION {{[sql |-> t, vars |-> v] :
                t \in UNION {Templates(m) : m \in PlaceholderCounts(Len(v))}} :
            v \in ShortVars \cup LongVars}
      \cup {[sql |-> ExampleSQL, vars |-> ExampleVars]}

\* the operations run through the hooks
LeadingSpaceSQL == <<" ">> \o RowQuerySQL
TabSeparatedSQL == <<"s","e","l","e","c","t","\t","1">>
NewlineSeparatedSQL == <<"s","e","l","e","c","t","\n","1">>

HookInputs ==
    {[sql |-> ExampleSQL, vars |-> ExampleVars],
     [sql |-> RowQuerySQL, vars |-> <<>>],
     [sql |-> LeadingSpaceSQL, vars |-> <<>>],
     [sql |-> TabSeparatedSQL, vars |-> <<>>],
     [sql |-> NewlineSeparatedSQL, vars |-> <<>>],
     [sql |-> <<"$","1">>, vars |-> <<NullString(<<>>, FALSE)>>]}

(***************************************************************************)
(* strings.Split(scope.SQL, " ")[0] and strings.ToUpper.                   *)
(***************************************************************************)
RECURSIVE FirstField(_)
FirstField(s) ==
    IF s = <<>> \/ Head(s) = " " THEN <<>> ELSE <<Head(s)>> \o FirstField(Tail(s))

UpperChar(c) ==
    IF \E i \in 1..Len(LowerLetters) : LowerLetters[i] = c
    THEN UpperLetters[CHOOSE i \in 1..Len(LowerLetters) : LowerLetters[i] = c]
    ELSE c

ToUpper(s) == [i \in 1..Len(s) |-> UpperChar(s[i])]

INSERT == <<"I","N","S","E","R","T">>
SELECT == <<"S","E","L","E","C","T">>
UPDATE == <<"U","P","D","A","T","E">>
DELETE == <<"D","E","L","E","T","E">>

(***************************************************************************)
(* Tracer: StartSpan, SetTag, Finish.                                      *)
(***************************************************************************)
Entry(call, sp, key) == [call |-> call, span |-> sp, key |-> key]

\* the tags of a span after the SetTag calls in steps (pairs key, value)
SetTags(tags, steps) ==
    [k \in DOMAIN tags \cup {steps[i][1] : i \in 1..Len(steps)} |->
        IF \E i \in 1..Len(steps) : steps[i][1] = k
        THEN steps[CHOOSE i \in 1..Len(steps) :
                      /\ steps[i][1] = k
                      /\ \A j \in 1..Len(steps) : steps[j][1] = k => j <= i][2]
        ELSE tags[k]]

TagEntries(sp, steps) == [i \in 1..Len(steps) |-> Entry("SetTag", sp, steps[i][1])]

\* the host calls hooks until one panics or the bound is reached
Panicked == calls # <<>> /\ calls[Len(calls)].outcome = "panicked"
CanCall(k) == kind = k /\ Len(calls) < MaxCalls /\ ~Panicked

Call(hook, outcome) == [hook |-> hook, outcome |-> outcome]

(***************************************************************************)
(* SetSpanToGorm(ctx, db): the handle the operation then runs on.          *)
(***************************************************************************)
\* variant of SetSpanToGorm that stores the parent span in the handle it was
\* given instead of in a clone of it
SetSpanToGormInPlace ==
    /\ calls = <<>>
    /\ \E c \in Contexts :
          /\ ctx' = c
          /\ scopeValues' =
                IF c.isNil THEN dbValues
                ELSE IF SpanFromContext(c) = NoSpan THEN dbValues
                ELSE Store(dbValues, parentSpanGormKey, SpanFromContext(c))
    /\ dbValues' = scopeValues'
    /\ UNCHANGED <<scopeFields, spans, log, calls, result, parked>>

SetSpanToGorm ==
    /\ calls = <<>>
    /\ \E c \in Contexts :
          /\ ctx' = c
          /\ scopeValues' =
                IF c.isNil THEN dbValues
                ELSE IF SpanFromContext(c) = NoSpan THEN dbValues
                ELSE Store(dbValues, parentSpanGormKey, SpanFromContext(c))
    /\ UNCHANGED <<scopeFields, dbValues, spans, log, calls, result, parked>>

\* variant of before that starts the span without looking for a parent
beforeWithoutParentCheck ==
    LET sp == Len(spans) + 1
        steps == <<<<"db.type", DialectName>>, <<"db.instance", InstanceID>>>>
    IN  /\ spans' = Append(spans,
                [tracer |-> "global",
                 name |-> "sql",
                 childOf |-> NoSpan.id,
                 tags |-> SetTags([k \in {} |-> k], steps),
                 finishes |-> 0])
        /\ log' = log \o <<Entry("StartSpan", sp, "")>> \o TagEntries(sp, steps)
        /\ scopeValues' = Store(scopeValues, spanGormKey, sp)
        /\ calls' = Append(calls, Call("before", "returned"))
        /\ UNCHANGED <<scopeFields, dbValues, result, ctx, parked>>

\* variant of before that starts the span on the global tracer
beforeOnGlobalTracer ==
    /\ IF parentSpanGormKey \notin DOMAIN scopeValues
       THEN /\ calls' = Append(calls, Call("before", "returned"))
            /\ UNCHANGED <<scopeValues, spans, log>>
       ELSE LET parentSpan == scopeValues[parentSpanGormKey]
                sp == Len(spans) + 1
                steps == <<<<"db.type", DialectName>>, <<"db.instance", InstanceID>>>>
            IN  /\ spans' = Append(spans,
                        [tracer |-> "global",
                         name |-> "sql",
                         childOf |-> parentSpan.id,
                         tags |-> SetTags([k \in {} |-> k], steps),
                         finishes |-> 0])
                /\ log' = log \o <<Entry("StartSpan", sp, "")>> \o TagEntries(sp, steps)
                /\ scopeValues' = Store(scopeValues, spanGormKey, sp)
                /\ calls' = Append(calls, Call("before", "returned"))
    /\ UNCHANGED <<scopeFields, dbValues, result, ctx, parked>>

\* variant of before that never stores the started span in the scope
beforeWithoutStore ==
    /\ IF parentSpanGormKey \notin DOMAIN scopeValues
       THEN UNCHANGED <<spans, log>>
       ELSE LET parentSpan == scopeValues[parentSpanGormKey]
                sp == Len(spans) + 1
                steps == <<<<"db.type", DialectName>>, <<"db.instance", InstanceID>>>>
            IN  /\ spans' = Append(spans,
                        [tracer |-> parentSpan.tracer,
                         name |-> "sql",
                         childOf |-> parentSpan.id,
                         tags |-> SetTags([k \in {} |-> k], steps),
                         finishes |-> 0])
                /\ log' = log \o <<Entry("StartSpan", sp, "")>> \o TagEntries(sp, steps)
    /\ calls' = Append(calls, Call("before", "returned"))
    /\ UNCHANGED <<scopeFields, dbValues, scopeValues, result, ctx, parked>>

(***************************************************************************)
(* callbacks.before                                                        *)
(***************************************************************************)
before ==
    /\ IF parentSpanGormKey \notin DOMAIN scopeValues
       THEN /\ calls' = Append(calls, Call("before", "returned"))
            /\ UNCHANGED <<scopeValues, spans, log>>
       ELSE LET parentSpan == scopeValues[parentSpanGormKey]
                sp == Len(spans) + 1
                steps == <<<<"db.type", DialectName>>, <<"db.instance", InstanceID>>>>
            IN  /\ spans' = Append(spans,
                        [tracer |-> parentSpan.tracer,
                         name |-> "sql",
                         childOf |-> parentSpan.id,
                         tags |-> SetTags([k \in {} |-> k], steps),
                         finishes |-> 0])
                /\ log' = log \o <<Entry("StartSpan", sp, "")>> \o TagEntries(sp, steps)
                /\ scopeValues' = Store(scopeValues, spanGormKey, sp)
                /\ calls' = Append(calls, Call("before", "returned"))
    /\ UNCHANGED <<scopeFields, dbValues, result, ctx, parked>>

(***************************************************************************)
(* callbacks.after.  afterStepsAlwaysErr is the variant of afterSteps that  *)
(* sets db.err without looking at the error.                                *)
(* The tag calls go to the tracer's span implementation;                   *)
(* a call that panics unwinds the hook (there is no deferred Finish):      *)
(* panicAt is the number of the tag call that panics, 0 when none does.    *)
(***************************************************************************)
afterStepsAlwaysErr(operation) ==
    LET method == IF operation = <<>> THEN ToUpper(FirstField(SQL)) ELSE operation
    IN  <<<<"error", HasError>>,
          <<"db.table", TableName>>,
          <<"db.method", method>>,
          <<"db.count", RowsAffected>>,
          <<"db.err", dbError>>,
          <<"db.statement", setStatement(SQL, SQLVars)>>>>

afterSteps(operation) ==
    LET method == IF operation = <<>> THEN ToUpper(FirstField(SQL)) ELSE operation
    IN  <<<<"error", HasError>>,
          <<"db.table", TableName>>,
          <<"db.method", method>>,
          <<"db.count", RowsAffected>>>>
        \o (IF HasError THEN <<<<"db.err", dbError>>>> ELSE <<>>)
        \o <<<<"db.statement", setStatement(SQL, SQLVars)>>>>

\* variant of after that takes the span started last on the tracer instead
\* of the one stored in the scope
afterOnLatestSpan(operation) ==
    /\ IF spanGormKey \notin DOMAIN scopeValues
       THEN /\ calls' = Append(calls, Call("after", "returned"))
            /\ UNCHANGED <<spans, log>>
       ELSE LET sp == Len(spans)
                steps == afterSteps(operation)
            IN  /\ spans' = [spans EXCEPT
                        ![sp].tags = SetTags(@, steps),
                        ![sp].finishes = @ + 1]
                /\ log' = log \o TagEntries(sp, steps) \o <<Entry("Finish", sp, "")>>
                /\ calls' = Append(calls, Call("after", "returned"))
    /\ UNCHANGED <<scopeFields, dbValues, scopeValues, result, ctx, parked>>

\* variant of after that writes the rendered statement back into scope.SQL
afterRewritingSQL(operation) ==
    /\ IF spanGormKey \notin DOMAIN scopeValues
       THEN /\ calls' = Append(calls, Call("after", "returned"))
            /\ UNCHANGED <<spans, log, SQL>>
       ELSE LET sp == scopeValues[spanGormKey]
                steps == afterSteps(operation)
            IN  /\ spans' = [spans EXCEPT
                        ![sp].tags = SetTags(@, steps),
                        ![sp].finishes = @ + 1]
                /\ log' = log \o TagEntries(sp, steps) \o <<Entry("Finish", sp, "")>>
                /\ calls' = Append(calls, Call("after", "returned"))
                /\ SQL' = setStatement(SQL, SQLVars)
    /\ UNCHANGED <<kind, SQLVars, dbError, RowsAffected, dbValues, scopeValues,
                   result, ctx, parked>>

after(operation) ==
    /\ IF spanGormKey \notin DOMAIN scopeValues
       THEN /\ calls' = Append(calls, Call("after", "returned"))
            /\ UNCHANGED <<spans, log>>
       ELSE LET sp == scopeValues[spanGormKey]
                steps == afterSteps(operation)
            IN  \E panicAt \in 0..Len(steps) :
                  IF panicAt = 0
                  THEN /\ spans' = [spans EXCEPT
                              ![sp].tags = SetTags(@, steps),
                              ![sp].finishes = @ + 1]
                       /\ log' = log \o TagEntries(sp, steps)
                                     \o <<Entry("Finish", sp, "")>>
                       /\ calls' = Append(calls, Call("after", "returned"))
                  ELSE LET done == SubSeq(steps, 1, panicAt - 1)
                       IN  /\ spans' = [spans EXCEPT ![sp].tags = SetTags(@, done)]
                           /\ log' = log \o TagEntries(sp, done)
                           /\ calls' = Append(calls, Call("after", "panicked"))
    /\ UNCHANGED <<scopeFields, dbValues, scopeValues, result, ctx, parked>>

\* variant of afterUpdate that passes the verb of afterDelete
afterUpdateAsDelete == CanCall("update") /\ after(DELETE)

beforeCreate == CanCall("create") /\ before
afterCreate == CanCall("create") /\ after(INSERT)
beforeQuery == CanCall("query") /\ before
afterQuery == CanCall("query") /\ after(SELECT)
beforeUpdate == CanCall("update") /\ before
afterUpdate == CanCall("update") /\ after(UPDATE)
beforeDelete == CanCall("delete") /\ before
afterDelete == CanCall("delete") /\ after(DELETE)
beforeRowQuery == CanCall("row_query") /\ before
afterRowQuery == CanCall("row_query") /\ after(<<>>)

(***************************************************************************)
(* A direct call of setStatement on a scope.                               *)
(***************************************************************************)
CallSetStatement ==
    /\ result' = setStatement(SQL, SQLVars)
    /\ UNCHANGED <<scopeFields, dbValues, scopeValues, spans, log, calls, ctx, parked>>

(***************************************************************************)
(* Specifications.                                                         *)
(***************************************************************************)
InitTracing ==
    /\ dbValues = BaseSettings
    /\ scopeValues = BaseSettings
    /\ spans = <<>>
    /\ log = <<>>
    /\ calls = <<>>
    /\ result = NotRun
    /\ ctx = NilContext
    /\ parked = <<>>

\* an operation about to run through the hooks
Init ==
    /\ kind \in Kinds
    /\ \E in \in HookInputs : SQL = in.sql /\ SQLVars = in.vars
    /\ dbError \in Errors
    /\ RowsAffected \in {0, 1}
    /\ InitTracing

Next ==
    \/ SetSpanToGorm
    \/ beforeCreate
    \/ afterCreate
    \/ beforeQuery
    \/ afterQuery
    \/ beforeUpdate
    \/ afterUpdate
    \/ beforeDelete
    \/ afterDelete
    \/ beforeRowQuery
    \/ afterRowQuery

Spec == Init /\ [][Next]_vars

\* a scope handed to setStatement
InitRender ==
    /\ kind = "row_query"
    /\ \E in \in RenderInputs : SQL = in.sql /\ SQLVars = in.vars
    /\ dbError = NoError
    /\ RowsAffected = 0
    /\ InitTracing

NextRender == CallSetStatement

SpecRender == InitRender /\ [][NextRender]_vars

(***************************************************************************)
(* Several operations in flight on one tracer.  Every operation has its    *)
(* own scope: gorm's NewScope clones the handle the operation is called    *)
(* on, settings included, so the hooks of one operation read and write     *)
(* that operation's settings only.  The handle is the plain one, or the    *)
(* one of the operation in flight (the handle SetSpanToGorm returned, used *)
(* again, or scope.DB() inside a callback).  The operations take turns in  *)
(* any order; the spans and the tracer log are common to them.             *)
(***************************************************************************)
ThisOperation ==
    [kind |-> kind, SQL |-> SQL, SQLVars |-> SQLVars, dbError |-> dbError,
     RowsAffected |-> RowsAffected, dbValues |-> dbValues,
     scopeValues |-> scopeValues, calls |-> calls]

Resume(op) ==
    /\ kind' = op.kind
    /\ SQL' = op.SQL
    /\ SQLVars' = op.SQLVars
    /\ dbError' = op.dbError
    /\ RowsAffected' = op.RowsAffected
    /\ dbValues' = op.dbValues
    /\ scopeValues' = op.scopeValues
    /\ calls' = op.calls

\* a second operation starts on a handle while the first one is in flight
NewScope ==
    /\ parked = <<>>
    /\ \E db \in {BaseSettings, scopeValues} :
          Resume([kind |-> "query", SQL |-> <<"$","1">>, SQLVars |-> <<IntValue(5)>>,
                  dbError |-> NoError, RowsAffected |-> 0,
                  dbValues |-> db, scopeValues |-> db, calls |-> <<>>])
    /\ parked' = <<ThisOperation>>
    /\ UNCHANGED <<spans, log, result, ctx>>

\* the scheduler lets another operation take its next step
Switch ==
    /\ \E i \in 1..Len(parked) :
          /\ Resume(parked[i])
          /\ parked' = [parked EXCEPT ![i] = ThisOperation]
    /\ UNCHANGED <<spans, log, result, ctx>>

InitOps ==
    /\ kind = "create"
    /\ SQL = <<"$","1">>
    /\ SQLVars = <<StringValue(<<"a","n","n">>)>>
    /\ dbError = NoError
    /\ RowsAffected = 1
    /\ InitTracing

NextOps ==
    \/ SetSpanToGorm
    \/ beforeCreate
    \/ afterCreate
    \/ beforeQuery
    \/ afterQuery
    \/ NewScope
    \/ Switch

SpecOps == InitOps /\ [][NextOps]_vars

(***************************************************************************)
(* Vocabulary of the properties.                                           *)
(***************************************************************************)
Hooks == [i \in 1..Len(calls) |-> calls[i].hook]
ParentAttached == parentSpanGormKey \in DOMAIN scopeValues
SpanStored == spanGormKey \in DOMAIN scopeValues
CountLog(call) == Cardinality({i \in 1..Len(log) : log[i].call = call})

\* the after calls that found a span in the scope: those made after a
\* before call that stored one
AfterCallsWithSpan ==
    {i \in 1..Len(calls) :
        /\ calls[i].hook = "after"
        /\ ParentAttached
        /\ \E j \in 1..(i - 1) : calls[j].hook = "before"}

Contains(s, sub) == \E i \in 1..Len(s) : HasPrefixAt(s, i, sub)
Token(k) == <<"$">> \o NatDigits(k)

\* placeholder tokens read the way the template is written: a dollar sign
\* and the whole run of digits after it
RECURSIVE DigitRun(_, _)
DigitRun(s, i) ==
    IF i <= Len(s) /\ s[i] \in Digits THEN 1 + DigitRun(s, i + 1) ELSE 0

DigitValue(c) == (CHOOSE d \in 1..Len(DigitChars) : DigitChars[d] = c) - 1

RECURSIVE NumberAt(_, _, _)
NumberAt(s, i, n) ==
    IF n = 0 THEN 0
    ELSE NumberAt(s, i, n - 1) * Len(DigitChars) + DigitValue(s[i + n - 1])

IsTokenAt(s, i) ==
    /\ s[i] = "$"
    /\ DigitRun(s, i + 1) > 0
    /\ s[i + 1] # "0"

TokenNumber(s, i) == NumberAt(s, i + 1, DigitRun(s, i + 1))

\* the numbers of the placeholder tokens of a template, in order
RECURSIVE TokenNumbers(_, _)
TokenNumbers(s, i) ==
    IF i > Len(s) THEN <<>>
    ELSE IF IsTokenAt(s, i)
         THEN <<TokenNumber(s, i)>> \o TokenNumbers(s, i + 1 + DigitRun(s, i + 1))
         ELSE TokenNumbers(s, i + 1)

\* the template holds exactly the placeholders $1..$n, ascending
WellFormed(s, n) == TokenNumbers(s, 1) = [i \in 1..n |-> i]

\* every dollar sign of the template starts a placeholder token
NoStrayDollar(s) == \A i \in 1..Len(s) : s[i] = "$" => IsTokenAt(s, i)

\* the template with every token $i (i within the literals) replaced by
\* literal i and every other character kept
RECURSIVE Substituted(_, _, _)
Substituted(s, i, lits) ==
    IF i > Len(s) THEN <<>>
    ELSE IF IsTokenAt(s, i) /\ TokenNumber(s, i) \in 1..Len(lits)
         THEN lits[TokenNumber(s, i)]
                  \o Substituted(s, i + 1 + DigitRun(s, i + 1), lits)
         ELSE <<s[i]>> \o Substituted(s, i + 1, lits)

Literals == [i \in 1..Len(SQLVars) |-> sqlValue(SQLVars[i])]
Rendered == result # NotRun
NumArgs == Len(SQLVars)

\* no placeholder of the template is a prefix of another one
SingleDigitPlaceholders == NumArgs < Len(DigitChars)

\* the statement expected when argument i renders as text
ExpectedWith(i, text) == Substituted(SQL, 1, [Literals EXCEPT ![i] = text])

IsNullWrapper(val) == val.type \in NullWrapperTypes

\* the literal the type-dispatch rules give for the inner value of a wrapper
InnerLiteral(val) ==
    CASE val.type = "sql.NullString" -> Quote(val.String)
      [] val.type \in {"sql.NullTime", "pq.NullTime"} -> Quote(TimeString(val.Time))
      [] val.type = "sql.NullInt64" -> Itoa(val.Int64)
      [] val.type = "sql.NullInt32" -> Itoa(val.Int32)
      [] val.type = "sql.NullBool" -> FormatBool(val.Bool)
      [] val.type = "sql.NullFloat64" -> FormatFloat(val.Float64)

(***************************************************************************)
(* C1: with a parent span attached, one before hook followed by one after  *)
(* hook (of any kind, with or without an operation error, any row count)   *)
(* makes exactly one StartSpan call and exactly one Finish call, the       *)
(* Finish on the span that was started and after its StartSpan.            *)
(***************************************************************************)
BeforeThenAfter ==
    /\ ParentAttached
    /\ Hooks = <<"before", "after">>
    /\ calls[Len(calls)].outcome = "returned"

C1_OneStartOneFinish ==
    BeforeThenAfter =>
        /\ CountLog("StartSpan") = 1
        /\ CountLog("Finish") = 1
        /\ Len(spans) = 1
        /\ spans[1].finishes = 1
        /\ log[1] = Entry("StartSpan", 1, "")
        /\ log[Len(log)] = Entry("Finish", 1, "")

C1_Witness == BeforeThenAfter /\ HasError /\ RowsAffected = 0

(***************************************************************************)
(* C2: however often the after hook is called after one before hook that   *)
(* started a span, the span is finished at most once.                      *)
(***************************************************************************)
C2_FinishedAtMostOnce == \A sp \in 1..Len(spans) : spans[sp].finishes <= 1

(***************************************************************************)
(* C3: while no parent span is attached to the operation state, the hooks  *)
(* make no tracer call at all (no StartSpan, SetTag or Finish) and store   *)
(* no active span.                                                         *)
(***************************************************************************)
C3_UntracedIsSilent ==
    ~ParentAttached => log = <<>> /\ spans = <<>> /\ ~SpanStored

C3_Witness == ~ParentAttached /\ Hooks = <<"before", "after">>

(***************************************************************************)
(* C4: every after hook that found a span ends with that span finished,    *)
(* Finish being the last tracer call it made, also when a tag call fails.  *)
(***************************************************************************)
C4_FinishOnEveryPath ==
    Len(calls) \in AfterCallsWithSpan =>
        log[Len(log)] = Entry("Finish", scopeValues[spanGormKey], "")

(***************************************************************************)
(* C5: for a template holding exactly $1..$n and n arguments, the          *)
(* statement is the template with each token $i replaced by the literal    *)
(* computed for argument i and every other character unchanged.            *)
(***************************************************************************)
C5_EachPlaceholderReplaced ==
    /\ (Rendered /\ WellFormed(SQL, NumArgs)) =>
            result = Substituted(SQL, 1, Literals)
    /\ (Rendered /\ SQL = ExampleSQL /\ SQLVars = ExampleVars) =>
            result = ExampleStatement

(***************************************************************************)
(* C6: a literal that itself contains the text of a placeholder $j is      *)
(* written to the statement as it is: its $j is not replaced by the        *)
(* literal of argument j.                                                  *)
(***************************************************************************)
HoldsPlaceholderText(text) == \E j \in 1..NumArgs : Contains(text, Token(j))

C6_LiteralsNotRescanned ==
    Rendered =>
        /\ (/\ WellFormed(SQL, NumArgs)
            /\ SingleDigitPlaceholders
            /\ \E i \in 1..NumArgs : HoldsPlaceholderText(Literals[i]))
              => result = Substituted(SQL, 1, Literals)
        /\ \A i \in 1..NumArgs :
              (/\ i < Len(DigitChars)
               /\ Contains(SQL, Token(i))
               /\ HoldsPlaceholderText(Literals[i]))
                 => Contains(result, Literals[i])

C6_Witness ==
    /\ Rendered
    /\ WellFormed(SQL, NumArgs)
    /\ NumArgs = 2
    /\ Contains(Literals[1], Token(2))
    /\ ~Contains(Literals[2], <<"$">>)

(***************************************************************************)
(* C7 as stated: for a template holding exactly $1..$n and any n           *)
(* arguments, no token $k with k in 1..n is left in the statement.         *)
(***************************************************************************)
NoTokenLeft == \A k \in 1..NumArgs : ~Contains(result, Token(k))

C7_NoTokenLeftForAnyArguments ==
    (Rendered /\ WellFormed(SQL, NumArgs)) => NoTokenLeft

(***************************************************************************)
(* C7 amended: for a template holding exactly $1..$n whose dollar signs    *)
(* all belong to those placeholders, and n arguments whose literals hold   *)
(* no dollar sign, no token $k with k in 1..n is left in the statement.    *)
(***************************************************************************)
DollarFreeLiterals == \A i \in 1..NumArgs : ~Contains(Literals[i], <<"$">>)

C7_NoTokenLeft ==
    (/\ Rendered
     /\ WellFormed(SQL, NumArgs)
     /\ NoStrayDollar(SQL)
     /\ DollarFreeLiterals) => NoTokenLeft

C7_Witness ==
    /\ Rendered
    /\ WellFormed(SQL, NumArgs)
    /\ NoStrayDollar(SQL)
    /\ DollarFreeLiterals
    /\ NumArgs = MaxArgs

(***************************************************************************)
(* C8: a nullable wrapper whose validity flag is false renders as NULL at  *)
(* its placeholder, whatever its inner type and value.                     *)
(***************************************************************************)
C8_InvalidWrapperIsNull ==
    (Rendered /\ WellFormed(SQL, NumArgs) /\ SingleDigitPlaceholders) =>
        \A i \in 1..NumArgs :
            (IsNullWrapper(SQLVars[i]) /\ ~SQLVars[i].Valid)
                => result = ExpectedWith(i, NullText)

(***************************************************************************)
(* C9: a nullable wrapper whose validity flag is true renders as its inner *)
(* value only: quoted for text and time, unquoted for integer, float and   *)
(* boolean.                                                                *)
(***************************************************************************)
C9_ValidWrapperIsInnerValue ==
    (Rendered /\ WellFormed(SQL, NumArgs) /\ SingleDigitPlaceholders) =>
        \A i \in 1..NumArgs :
            (IsNullWrapper(SQLVars[i]) /\ SQLVars[i].Valid)
                => result = ExpectedWith(i, InnerLiteral(SQLVars[i]))

(***************************************************************************)
(* C10: a time.Time argument renders as its canonical string form in       *)
(* single quotes.                                                          *)
(***************************************************************************)
C10_TimeIsQuoted ==
    (Rendered /\ WellFormed(SQL, NumArgs) /\ SingleDigitPlaceholders) =>
        \A i \in 1..NumArgs :
            SQLVars[i].type = "time.Time"
                => result = ExpectedWith(i, Quote(TimeString(SQLVars[i])))

(***************************************************************************)
(* C11: a text argument renders as its characters between two single       *)
(* quotes, nothing escaped or altered: O'Reilly at $1 renders 'O'Reilly'.  *)
(***************************************************************************)
C11_TextVerbatimInQuotes ==
    /\ (Rendered /\ WellFormed(SQL, NumArgs) /\ SingleDigitPlaceholders) =>
          \A i \in 1..NumArgs :
              SQLVars[i].type = "string"
                  => result = ExpectedWith(i, <<"'">> \o SQLVars[i].s \o <<"'">>)
    /\ (Rendered /\ SQL = <<"$", "1">> /\ SQLVars = <<StringValue(OReilly)>>) =>
          result = <<"'", "O", "'", "R", "e", "i", "l", "l", "y", "'">>

C11_Witness ==
    Rendered /\ SQL = <<"$", "1">> /\ SQLVars = <<StringValue(OReilly)>>

(***************************************************************************)
(* C12: for the empty verb (row_query) the method tag is the upper-cased   *)
(* first whitespace-delimited token of the SQL text, whatever whitespace   *)
(* (space, tab, newline, leading whitespace) separates or precedes the     *)
(* tokens; "select id from t" gives SELECT.                                *)
(***************************************************************************)
Whitespace == {" ", "\t", "\n"}

RECURSIVE SkipWhitespace(_)
SkipWhitespace(s) ==
    IF s # <<>> /\ Head(s) \in Whitespace THEN SkipWhitespace(Tail(s)) ELSE s

RECURSIVE UpToWhitespace(_)
UpToWhitespace(s) ==
    IF s = <<>> \/ Head(s) \in Whitespace THEN <<>>
    ELSE <<Head(s)>> \o UpToWhitespace(Tail(s))

FirstToken(s) == UpToWhitespace(SkipWhitespace(s))

FinishedSpans == {sp \in 1..Len(spans) : spans[sp].finishes >= 1}

C12_MethodIsFirstWhitespaceToken ==
    kind = "row_query" =>
        \A sp \in FinishedSpans :
            spans[sp].tags["db.method"] = ToUpper(FirstToken(SQL))

(***************************************************************************)
(* C13: the error tag of a finished span is TRUE exactly when the          *)
(* operation's error is non-nil, the tag db.err is set (to that error)     *)
(* exactly when it is non-nil, and both are set before the Finish.         *)
(***************************************************************************)
TagSetBefore(sp, key, f) ==
    \E i \in 1..(f - 1) :
        /\ log[i] = Entry("SetTag", sp, key)
        /\ \A j \in (i + 1)..(f - 1) : log[j] # Entry("Finish", sp, "")

C13_ErrorTagsBeforeFinish ==
    /\ \A sp \in 1..Len(spans) : "db.err" \in DOMAIN spans[sp].tags => HasError
    /\ \A sp \in FinishedSpans :
          /\ spans[sp].tags["error"] = HasError
          /\ HasError => /\ "db.err" \in DOMAIN spans[sp].tags
                         /\ spans[sp].tags["db.err"] = dbError
    /\ \A f \in 1..Len(log) :
          log[f].call = "Finish" =>
              /\ TagSetBefore(log[f].span, "error", f)
              /\ HasError <=> TagSetBefore(log[f].span, "db.err", f)

C13_Witness ==
    /\ HasError
    /\ \E sp \in FinishedSpans : spans[sp].tags["error"] = TRUE

(***************************************************************************)
(* C14: SetSpanToGorm returns the handle it was given when the context is  *)
(* nil or carries no active span; otherwise it returns a derived handle    *)
(* with the parent span stored under the parent-span key.  The store of    *)
(* the handle it was given is left as it was in both cases.                *)
(***************************************************************************)
SetSpanToGormStep == calls' = calls /\ parked' = parked /\ result' = result

C14_SetSpanToGormDerivesHandle ==
    [][SetSpanToGormStep =>
          /\ dbValues' = dbValues
          /\ (ctx'.isNil \/ SpanFromContext(ctx') = NoSpan)
                => scopeValues' = dbValues
          /\ (~ctx'.isNil /\ SpanFromContext(ctx') # NoSpan)
                => /\ scopeValues' =
                          Store(dbValues, parentSpanGormKey, SpanFromContext(ctx'))
                   /\ scopeValues'[parentSpanGormKey] = ctx'.span]_vars

C14_Witness ==
    /\ calls = <<>>
    /\ ~ctx.isNil
    /\ ctx.span \in ParentSpans
    /\ scopeValues = Store(dbValues, parentSpanGormKey, ctx.span)
    /\ parentSpanGormKey \notin DOMAIN dbValues

(***************************************************************************)
(* C15: when the template's placeholders and the arguments differ in       *)
(* number, rendering does not fail: a placeholder $k with k greater than   *)
(* the number of arguments stays in the output as written ($10 included,   *)
(* when there is at least one argument), arguments beyond the last         *)
(* placeholder are ignored, and with no argument the template comes back   *)
(* unchanged.                                                              *)
(***************************************************************************)
CountsDiffer ==
    \E m \in PlaceholderCounts(NumArgs) : m # NumArgs /\ WellFormed(SQL, m)

C15_MismatchedCountsLeaveTokens ==
    (Rendered /\ CountsDiffer /\ SingleDigitPlaceholders) =>
        /\ result = Substituted(SQL, 1, Literals)
        /\ NumArgs = 0 => result = SQL

(***************************************************************************)
(* C16: rendering never fails, whatever the argument; an argument whose    *)
(* value has no recognised concrete case (nil for one) renders as NULL.    *)
(***************************************************************************)
C16_NilRendersNull ==
    (Rendered /\ WellFormed(SQL, NumArgs) /\ SingleDigitPlaceholders) =>
        \A i \in 1..NumArgs :
            SQLVars[i] = NilValue => result = ExpectedWith(i, NullText)

(***************************************************************************)
(* C17: in every state of an operation, whatever SetSpanToGorm, before and *)
(* after calls led to it, the active-span key is present only if the       *)
(* parent-span key is, and the span stored under it is a child of exactly  *)
(* that parent span, started on that parent's tracer.                      *)
(***************************************************************************)
StoredSpanIsChildOfParent ==
    LET sp == spans[scopeValues[spanGormKey]]
        parentSpan == scopeValues[parentSpanGormKey]
    IN  sp.childOf = parentSpan.id /\ sp.tracer = parentSpan.tracer

C17_StoredSpanIsChildOfParentAlways ==
    SpanStored => (ParentAttached /\ StoredSpanIsChildOfParent)

\* C17 as amended: the active-span key is present only if the parent-span
\* key is, and from the moment the operation's own before hook has run the
\* span stored under it is a child of exactly that parent span, started on
\* that parent's tracer.
BeforeHasRun == \E i \in 1..Len(calls) : calls[i].hook = "before"

C17_StoredSpanIsChildOfParent ==
    /\ SpanStored => ParentAttached
    /\ (SpanStored /\ BeforeHasRun) => StoredSpanIsChildOfParent

\* an operation that took over another operation's span and another parent
\* with its handle, after its own before hook
C17_Witness ==
    /\ BeforeHasRun
    /\ SpanStored
    /\ spanGormKey \in DOMAIN dbValues
    /\ dbValues[parentSpanGormKey] # scopeValues[parentSpanGormKey]
    /\ scopeValues[spanGormKey] # dbValues[spanGormKey]

(***************************************************************************)
(* C18: the hooks leave the host's operation as it is.  The before hook    *)
(* changes nothing in the operation state but the active-span key (and    *)
(* nothing at all without a parent span); the after hook changes nothing;  *)
(* the error, the affected-row count, the SQL template, the argument list  *)
(* and the parent-span key are the same after every hook call.             *)
(***************************************************************************)
\* a step in which the host calls a hook on the operation in hand
HookStep ==
    /\ parked' = parked
    /\ Len(calls') = Len(calls) + 1
    /\ SubSeq(calls', 1, Len(calls)) = calls
LastHook == calls'[Len(calls')].hook

SameExceptActiveSpan ==
    /\ DOMAIN scopeValues' \ {spanGormKey} = DOMAIN scopeValues \ {spanGormKey}
    /\ \A k \in DOMAIN scopeValues \ {spanGormKey} : scopeValues'[k] = scopeValues[k]

C18_HooksLeaveOperationUntouched ==
    [][HookStep =>
          /\ kind' = kind
          /\ SQL' = SQL
          /\ SQLVars' = SQLVars
          /\ dbError' = dbError
          /\ RowsAffected' = RowsAffected
          /\ dbValues' = dbValues
          /\ SameExceptActiveSpan
          /\ LastHook = "before" =>
                IF ParentAttached
                THEN spanGormKey \in DOMAIN scopeValues'
                ELSE scopeValues' = scopeValues
          /\ LastHook = "after" => scopeValues' = scopeValues]_vars

C18_Witness ==
    /\ Hooks = <<"before", "after">>
    /\ ParentAttached
    /\ HasError
    /\ SQL = ExampleSQL
    /\ SQLVars = ExampleVars
    /\ FinishedSpans # {}
    /\ spans[1].tags["db.statement"] = ExampleStatement

(***************************************************************************)
(* C19: several operations, each with its own state, with parent spans on  *)
(* one tracer, their before and after hooks interleaved in any order: the  *)
(* span an operation started is finished exactly once, by that operation's *)
(* own after hook, and the tags an after hook sets land on the span stored *)
(* in its own operation's state, never on another operation's span.        *)
(***************************************************************************)
AllOperations == <<ThisOperation>> \o parked
HooksOf(op) == [i \in 1..Len(op.calls) |-> op.calls[i].hook]
InOrder(op) == HooksOf(op) \in {<<>>, <<"before">>, <<"before", "after">>}
Traced(op) == parentSpanGormKey \in DOMAIN op.scopeValues
Started(op) == Traced(op) /\ op.calls # <<>> /\ InOrder(op)
Completed(op) ==
    /\ Traced(op)
    /\ op.calls = <<Call("before", "returned"), Call("after", "returned")>>
OwnSpan(op) == op.scopeValues[spanGormKey]
MethodOf(op) == IF op.kind = "create" THEN INSERT ELSE SELECT

\* every operation has had its hooks in the order the callback chain gives
AllInOrder == \A i \in 1..Len(AllOperations) : InOrder(AllOperations[i])

EachSpanFinishedOnce ==
    AllInOrder =>
        /\ \A i, j \in 1..Len(AllOperations) :
              (i # j /\ Started(AllOperations[i]) /\ Started(AllOperations[j]))
                  => OwnSpan(AllOperations[i]) # OwnSpan(AllOperations[j])
        /\ \A i \in 1..Len(AllOperations) :
              LET op == AllOperations[i]
              IN  /\ (Started(op) /\ Len(op.calls) = 1)
                        => spans[OwnSpan(op)].finishes = 0
                  /\ Completed(op) =>
                        /\ spans[OwnSpan(op)].finishes = 1
                        /\ spans[OwnSpan(op)].tags["db.statement"]
                              = setStatement(op.SQL, op.SQLVars)
                        /\ spans[OwnSpan(op)].tags["db.method"] = MethodOf(op)
                        /\ spans[OwnSpan(op)].childOf
                              = op.scopeValues[parentSpanGormKey].id

\* a hook step touches the span of the operation it is called for, no other
HookTouchesOwnSpanOnly ==
    (HookStep /\ AllInOrder') =>
        /\ SubSeq(log', 1, Len(log)) = log
        /\ \A i \in (Len(log) + 1)..Len(log') :
              /\ spanGormKey \in DOMAIN scopeValues'
              /\ log'[i].span = scopeValues'[spanGormKey]
        /\ \A sp \in 1..Len(spans) :
              spans'[sp] # spans[sp] =>
                  /\ LastHook = "after"
                  /\ spanGormKey \in DOMAIN scopeValues
                  /\ sp = scopeValues[spanGormKey]
        /\ (LastHook = "before" /\ ParentAttached) =>
              /\ Len(spans') = Len(spans) + 1
              /\ scopeValues'[spanGormKey] = Len(spans')

C19_InterleavedOperationsKeepTheirSpans ==
    []EachSpanFinishedOnce /\ [][HookTouchesOwnSpanOnly]_vars

\* two completed operations under parents of one tracer, the second one's
\* span started while the first one's was open and finished before it
C19_Witness ==
    /\ Len(parked) = 1
    /\ Completed(ThisOperation)
    /\ Completed(parked[1])
    /\ scopeValues[parentSpanGormKey].tracer
          = parked[1].scopeValues[parentSpanGormKey].tracer
    /\ ThisOperation.kind # parked[1].kind
    /\ \E s1, s2, f1, f2 \in 1..Len(log) :
          /\ log[s1] = Entry("StartSpan", 1, "")
          /\ log[s2] = Entry("StartSpan", 2, "")
          /\ log[f2] = Entry("Finish", 2, "")
          /\ log[f1] = Entry("Finish", 1, "")
          /\ s1 < s2 /\ s2 < f2 /\ f2 < f1

(***************************************************************************)
(* C20: the method tag of a finished span is fixed by the operation kind,  *)
(* whatever the SQL template: INSERT for create, SELECT for query, UPDATE  *)
(* for update, DELETE for delete.  Only for row_query is it derived from   *)
(* the template.                                                           *)
(***************************************************************************)
MethodOfKind ==
    [k \in Kinds \ {"row_query"} |->
        CASE k = "create" -> INSERT
          [] k = "query" -> SELECT
          [] k = "update" -> UPDATE
          [] k = "delete" -> DELETE]

C20_MethodFixedByKind ==
    \A sp \in FinishedSpans :
        /\ kind # "row_query" => spans[sp].tags["db.method"] = MethodOfKind[kind]
        /\ kind = "row_query" =>
              /\ spans[sp].tags["db.method"] = ToUpper(FirstField(SQL))
              /\ SQL = RowQuerySQL => spans[sp].tags["db.method"] = SELECT
              /\ SQL = <<"$", "1">> => spans[sp].tags["db.method"] = <<"$", "1">>

\* an update whose template starts with another verb
C20_Witness ==
    /\ kind = "update"
    /\ SQL = ExampleSQL
    /\ \E sp \in FinishedSpans : spans[sp].tags["db.method"] = UPDATE

====
